---- MODULE Spec2Model ----
(***************************************************************************)
(* A model of bigBedToBed.py, a reader of the BigBed container: the        *)
(* chromosome B+ tree, the chromosome-index R-tree (CIR-tree) and the      *)
(* block fetch / merge / decompress / decode pipeline behind query and     *)
(* to_bed.  The file is a sequence of bytes (0..255) and every reader      *)
(* works on it at byte offsets, as the Python code does through the        *)
(* shared file handle.                                                     *)
(***************************************************************************)
EXTENDS Integers, Sequences, FiniteSets, TLC

VARIABLES
    fx,           \* the logical content the file was written from
    file,         \* the bytes of the file
    bb,           \* the fields BigBed.__init__ and BPlusTree.__init__ read
    unzoomedCir,  \* BigBed.unzoomedCir: None or the attached CIRTree
    alive,        \* FALSE once exit(-1) has ended the process
    call,         \* the last call made on the container, with its arguments
    ret,          \* what that call returned or raised
    queried,      \* query has been called since the container was opened
    cirReads      \* how many times the CIR-tree header has been read

vars == <<fx, file, bb, unzoomedCir, alive, call, ret, queried, cirReads>>

\* Python's None (see "Python values" below)
None == <<>>

(***************************************************************************)
(* Bounds of the model.                                                    *)
(***************************************************************************)
MaxPos == 1      \* base positions range over 0..MaxPos
MaxRecs == 2     \* records in one file
MaxCap == 1      \* max_items / maxItems range over 0..MaxCap

(***************************************************************************)
(* Bytes.                                                                  *)
(***************************************************************************)
Min(a, b) == IF a < b THEN a ELSE b
Max(a, b) == IF a > b THEN a ELSE b

\* s[::-1]
Reverse(s) == [i \in 1..Len(s) |-> s[Len(s) + 1 - i]]

\* s[a:b] for 0 <= a, 0 <= b: Python clamps a slice to the sequence
Slice(s, a, b) ==
    LET hi == Min(b, Len(s))
    IN  IF a >= hi THEN <<>> ELSE SubSeq(s, a + 1, hi)

\* s[a:]
SliceFrom(s, a) == Slice(s, a, Len(s))

RECURSIVE BEInt(_)
\* struct.unpack(">H" | ">L" | ">Q", b)[0]: the big-endian value of b
BEInt(b) ==
    IF b = <<>> THEN 0
    ELSE BEInt(SubSeq(b, 1, Len(b) - 1)) * 256 + b[Len(b)]

\* struct.unpack("<L", b)[0]
LEInt(b) == BEInt(Reverse(b))

BIGBEDSIG == <<135, 137, 242, 235>>
BPTSIG == <<120, 202, 140, 145>>
CIRTREESIG == <<36, 104, 172, 224>>

(***************************************************************************)
(* Handle: the endian-aware readers.  The handle's cursor is made          *)
(* explicit: each reader takes the offset it reads at.                     *)
(***************************************************************************)
\* self._handle.read(n) at offset pos: short at the end of the file
read_bytes(f, pos, n) == Slice(f, pos, pos + n)

\* a bytes object of length 1
read_char(f, pos) == read_bytes(f, pos, 1)

read_bool(f, pos) == read_char(f, pos) # <<0>>

read_int(f, pos, n, is_swapped) ==
    LET data == read_bytes(f, pos, n)
    IN  BEInt(IF is_swapped THEN Reverse(data) ELSE data)

read_short(f, pos, is_swapped) == read_int(f, pos, 2, is_swapped)
read_long(f, pos, is_swapped) == read_int(f, pos, 4, is_swapped)
read_longlong(f, pos, is_swapped) == read_int(f, pos, 8, is_swapped)

\* Python's truth value of a bytes object: false only when it is empty
Truthy(b) == Len(b) # 0

(***************************************************************************)
(* The on-disk layout, as the readers below expect it: the file a writer   *)
(* produces from the logical content fx.                                   *)
(*   fx.chroms : sequence of [name, id, size], in key order                *)
(*   fx.blocks : sequence of blocks, a block a sequence of [chr, s, e,     *)
(*               rest], in file order                                      *)
(***************************************************************************)
RECURSIVE PackBE(_, _)
PackBE(v, n) == IF n = 0 THEN <<>> ELSE PackBE(v \div 256, n - 1) \o <<v % 256>>

\* an n-byte integer in the byte order of the file
Pack(v, n, sw) == IF sw THEN Reverse(PackBE(v, n)) ELSE PackBE(v, n)

Magic(sig, sw) == IF sw THEN Reverse(sig) ELSE sig

Zeros(n) == [i \in 1..n |-> 0]

RECURSIVE Flatten(_)
Flatten(ss) == IF ss = <<>> THEN <<>> ELSE Head(ss) \o Flatten(Tail(ss))

RECURSIVE SumBytes(_)
SumBytes(b) == IF b = <<>> THEN 0 ELSE Head(b) + SumBytes(Tail(b))

SetMax(S) == CHOOSE x \in S : \A y \in S : y <= x

\* a key right-padded with zero bytes to keySize
PadKey(name, keySize) == name \o Zeros(keySize - Len(name))

\* B+ tree leaf node: isLeaf, reserved, childCount, then (key, chromId, chromSize)
BptLeafNode(items, keySize, sw) ==
    <<1, 0>> \o Pack(Len(items), 2, sw)
        \o Flatten([i \in 1..Len(items) |->
               PadKey(items[i].name, keySize)
                   \o Pack(items[i].id, 4, sw) \o Pack(items[i].size, 4, sw)])

\* The nodes of the chromosome B+ tree from rootOff on: one leaf, or an
\* internal root over two leaves (key of a child = its first key).
BptNodes(f, rootOff) ==
    IF ~f.bptInternal THEN BptLeafNode(f.chroms, f.keySize, f.swapped)
    ELSE
        LET n == Len(f.chroms)
            h == (n + 1) \div 2
            left == SubSeq(f.chroms, 1, h)
            right == SubSeq(f.chroms, h + 1, n)
            leftNode == BptLeafNode(left, f.keySize, f.swapped)
            rightNode == BptLeafNode(right, f.keySize, f.swapped)
            leftOff == rootOff + 4 + 2 * (f.keySize + 8)
            rightOff == leftOff + Len(leftNode)
        IN  <<0, 0>> \o Pack(2, 2, f.swapped)
                \o PadKey(left[1].name, f.keySize) \o Pack(leftOff, 8, f.swapped)
                \o PadKey(right[1].name, f.keySize) \o Pack(rightOff, 8, f.swapped)
                \o leftNode \o rightNode

\* B+ tree header: magic, blockSize, keySize, valSize, itemCount, 8 reserved
BptHeader(f) ==
    Magic(BPTSIG, f.swapped) \o Pack(2, 4, f.swapped) \o Pack(f.keySize, 4, f.swapped)
        \o Pack(8, 4, f.swapped) \o Pack(Len(f.chroms), 8, f.swapped) \o Zeros(8)

\* BED record: chromId, chromStart, chromEnd, rest, null terminator
RecordBytes(r, sw) ==
    Pack(r.chr, 4, sw) \o Pack(r.s, 4, sw) \o Pack(r.e, 4, sw) \o r.rest \o <<0>>

BlockRaw(blk, sw) == Flatten([i \in 1..Len(blk) |-> RecordBytes(blk[i], sw)])

\* The compressed form of a block: a stream that starts with the zlib header
\* byte 0x78, carries its length and its payload and ends with a checksum.
Deflate(raw) == <<120, Len(raw)>> \o raw \o <<SumBytes(raw) % 256>>

BlockEnc(f, i) ==
    LET raw == BlockRaw(f.blocks[i], f.swapped)
    IN  IF f.compressed THEN Deflate(raw) ELSE raw

\* bytes between two blocks that are not physically adjacent
GapBytes == <<255, 255, 255>>

RECURSIVE BlockOffset(_, _, _)
BlockOffset(f, dataOff, i) ==
    IF i = 1 THEN dataOff
    ELSE BlockOffset(f, dataOff, i - 1) + Len(BlockEnc(f, i - 1))
             + (IF f.gap THEN Len(GapBytes) ELSE 0)

DataBytes(f) ==
    Flatten([i \in 1..Len(f.blocks) |->
        (IF f.gap /\ i > 1 THEN GapBytes ELSE <<>>) \o BlockEnc(f, i)])

\* (chrom, base) pairs in lexicographic order
PairLess(a, b) == a[1] < b[1] \/ (a[1] = b[1] /\ a[2] < b[2])
PairMax(S) == CHOOSE x \in S : \A y \in S : y = x \/ PairLess(y, x)
PairMin(S) == CHOOSE x \in S : \A y \in S : y = x \/ PairLess(x, y)

\* the interval of a block: from its least start to its greatest end
BlockStart(blk) == PairMin({<<blk[i].chr, blk[i].s>> : i \in 1..Len(blk)})
BlockEnd(blk) == PairMax({<<blk[i].chr, blk[i].e>> : i \in 1..Len(blk)})

CirInterval(lo, hi, sw) ==
    Pack(lo[1], 4, sw) \o Pack(lo[2], 4, sw) \o Pack(hi[1], 4, sw) \o Pack(hi[2], 4, sw)

\* CIR-tree leaf node over blocks from..to
CirLeafNode(f, dataOff, from, to) ==
    <<1, 0>> \o Pack(to - from + 1, 2, f.swapped)
        \o Flatten([k \in 1..(to - from + 1) |->
               LET i == from + k - 1
               IN  CirInterval(BlockStart(f.blocks[i]), BlockEnd(f.blocks[i]), f.swapped)
                       \o Pack(BlockOffset(f, dataOff, i), 8, f.swapped)
                       \o Pack(Len(BlockEnc(f, i)), 8, f.swapped)])

\* the interval of the subtree over blocks from..to
RangeStart(f, from, to) == PairMin({BlockStart(f.blocks[i]) : i \in from..to})
RangeEnd(f, from, to) == PairMax({BlockEnd(f.blocks[i]) : i \in from..to})

\* The nodes of the CIR-tree from rootOff on: one leaf over all blocks, or an
\* internal root over leaves of the first and the second half of the blocks.
CirNodes(f, dataOff, rootOff) ==
    LET n == Len(f.blocks)
        sw == f.swapped
    IN  IF ~f.cirInternal THEN CirLeafNode(f, dataOff, 1, n)
        ELSE
            LET h == (n + 1) \div 2
                k == IF n > h THEN 2 ELSE 1
                leftNode == CirLeafNode(f, dataOff, 1, h)
                leftOff == rootOff + 4 + k * 24
                rightOff == leftOff + Len(leftNode)
            IN  <<0, 0>> \o Pack(k, 2, sw)
                    \o CirInterval(RangeStart(f, 1, h), RangeEnd(f, 1, h), sw)
                    \o Pack(leftOff, 8, sw)
                    \o (IF k = 2
                        THEN CirInterval(RangeStart(f, h + 1, n), RangeEnd(f, h + 1, n), sw)
                                 \o Pack(rightOff, 8, sw)
                        ELSE <<>>)
                    \o leftNode
                    \o (IF k = 2 THEN CirLeafNode(f, dataOff, h + 1, n) ELSE <<>>)

\* CIR-tree header: magic, blockSize, itemCount, startChromIx, startBase,
\* endChromIx, endBase, fileSize, itemsPerSlot, 4 reserved
CirHeader(f, fileSize) ==
    LET n == Len(f.blocks)
        sw == f.swapped
    IN  Magic(CIRTREESIG, sw) \o Pack(2, 4, sw) \o Pack(n, 8, sw)
            \o CirInterval(RangeStart(f, 1, n), RangeEnd(f, 1, n), sw)
            \o Pack(fileSize, 8, sw) \o Pack(2, 4, sw) \o Zeros(4)

\* 0 for an uncompressed file, else the largest uncompressed block
UncompressBufSize(f) ==
    IF f.compressed
    THEN SetMax({Len(BlockRaw(f.blocks[i], f.swapped)) : i \in 1..Len(f.blocks)})
    ELSE 0

\* BigBed header: magic, version, zoomLevels, chromTreeOffset,
\* unzoomedDataOffset, unzoomedIndexOffset, fieldCount, definedFieldCount,
\* asOffset, totalSummaryOffset, uncompressBufSize, extensionOffset
BigBedHeader(f, chromTreeOffset, dataOff, indexOff) ==
    LET sw == f.swapped
    IN  Magic(BIGBEDSIG, sw) \o Pack(4, 2, sw) \o Pack(0, 2, sw)
            \o Pack(chromTreeOffset, 8, sw) \o Pack(dataOff, 8, sw)
            \o Pack(indexOff, 8, sw) \o Pack(3, 2, sw) \o Pack(3, 2, sw)
            \o Pack(0, 8, sw) \o Pack(0, 8, sw)
            \o Pack(UncompressBufSize(f), 4, sw) \o Pack(0, 8, sw)

FileBytes(f) ==
    LET chromTreeOffset == 64
        bptRoot == chromTreeOffset + 32
        bptNodes == BptNodes(f, bptRoot)
        dataOff == bptRoot + Len(bptNodes)
        data == DataBytes(f)
        indexOff == dataOff + Len(data)
        cirNodes == CirNodes(f, dataOff, indexOff + 48)
        fileSize == indexOff + 48 + Len(cirNodes)
    IN  BigBedHeader(f, chromTreeOffset, dataOff, indexOff)
            \o BptHeader(f) \o bptNodes \o data
            \o CirHeader(f, fileSize) \o cirNodes

(***************************************************************************)
(* Python values.  None is the empty sequence and any other optional       *)
(* value x is <<x>>.  A call ends as [status, value]: status "ok" with the *)
(* returned value, or the name of the exception that ended it.             *)
(***************************************************************************)
Some(x) == <<x>>
Ret(v) == [status |-> "ok", value |-> v]
Raise(e) == [status |-> e, value |-> None]

\* A chromosome name or key as the caller passes it: a bytes object or a str.
Bytes(chars) == [type |-> "bytes", chars |-> chars]
Str(chars) == [type |-> "str", chars |-> chars]

RECURSIVE BytesLess(_, _)
\* a < b on bytes objects: lexicographic over the raw bytes
BytesLess(a, b) ==
    IF b = <<>> THEN FALSE
    ELSE IF a = <<>> THEN TRUE
    ELSE IF Head(a) # Head(b) THEN Head(a) < Head(b)
    ELSE BytesLess(Tail(a), Tail(b))

(***************************************************************************)
(* BPlusTree                                                               *)
(***************************************************************************)
BPlusTreeInit(f, off) ==
    LET sig == read_bytes(f, off, 4)
        is_swapped == sig # BPTSIG
    IN  IF sig # BPTSIG /\ Reverse(sig) # BPTSIG THEN Raise("ValueError")
        ELSE Ret([is_swapped |-> is_swapped,
                  blockSize |-> read_long(f, off + 4, is_swapped),
                  keySize |-> read_long(f, off + 8, is_swapped),
                  valSize |-> read_long(f, off + 12, is_swapped),
                  itemCount |-> read_longlong(f, off + 16, is_swapped),
                  rootOffset |-> off + 32])

\* key == other_key, other_key read from the file: a str never equals bytes
KeyEq(key, other_key) == key.type = "bytes" /\ key.chars = other_key

RECURSIVE ScanChildren(_, _, _, _, _, _)
\* The loop of r_find over an internal node: left iterations remain, pos is
\* the cursor and fileOffset the last child offset read.
ScanChildren(f, bpt, key, pos, left, fileOffset) ==
    IF left = 0 THEN Ret(fileOffset)
    ELSE
        LET other_key == read_bytes(f, pos, bpt.keySize)
        IN  IF key.type # "bytes" THEN Raise("TypeError")
            ELSE IF BytesLess(key.chars, other_key) THEN Ret(fileOffset)
            ELSE ScanChildren(f, bpt, key, pos + bpt.keySize + 8, left - 1,
                              read_longlong(f, pos + bpt.keySize, bpt.is_swapped))

RECURSIVE r_find(_, _, _, _)

\* r_find at a leaf: the value of the first of the child_count slots whose
\* key equals key, or None
LeafScan(f, bpt, offset, key, child_count) ==
    LET slot == bpt.keySize + bpt.valSize
        hits == {i \in 0..(child_count - 1) :
                    KeyEq(key, read_bytes(f, offset + 4 + i * slot, bpt.keySize))}
    IN  IF hits = {} THEN Ret(None)
        ELSE LET i == CHOOSE h \in hits : \A g \in hits : h <= g
             IN  Ret(Some(read_bytes(f, offset + 4 + i * slot + bpt.keySize,
                                     bpt.valSize)))

\* return self._r_find(fileOffset, key), fileOffset the outcome of the scan
Descend(f, bpt, key, target) ==
    IF target.status # "ok" THEN target ELSE r_find(f, bpt, target.value, key)

r_find(f, bpt, offset, key) ==
    \* is_leaf is the bytes object read_char returns
    IF Truthy(read_char(f, offset))
    THEN LeafScan(f, bpt, offset, key, read_short(f, offset + 2, bpt.is_swapped))
    ELSE \* the first key is read and discarded, then the first offset
         Descend(f, bpt, key,
                 ScanChildren(f, bpt, key, offset + 4 + bpt.keySize + 8,
                              read_short(f, offset + 2, bpt.is_swapped),
                              read_longlong(f, offset + 4 + bpt.keySize,
                                            bpt.is_swapped)))

find_maybe_multi(f, bpt, key) ==
    IF Len(key.chars) > bpt.keySize THEN Ret(None)
    ELSE IF Len(key.chars) # bpt.keySize
    THEN \* key + b"\x00" * n: a str cannot be extended with bytes
         IF key.type # "bytes" THEN Raise("TypeError")
         ELSE r_find(f, bpt, bpt.rootOffset,
                     Bytes(key.chars \o Zeros(bpt.keySize - Len(key.chars))))
    ELSE r_find(f, bpt, bpt.rootOffset, key)

find(f, bpt, key) == find_maybe_multi(f, bpt, key)

\* The visits of rTraverse from the node at start, as (key, val) pairs in
\* order.  The child offsets of an internal node are kept as the tuples
\* struct.unpack returns, and seeking to a tuple raises TypeError.
rTraverse(f, bpt, start) ==
    LET is_leaf == read_char(f, start)
        child_count == read_short(f, start + 2, bpt.is_swapped)
        slot == bpt.keySize + bpt.valSize
    IN  IF Truthy(is_leaf)
        THEN Ret([i \in 1..child_count |->
                    [key |-> read_bytes(f, start + 4 + (i - 1) * slot, bpt.keySize),
                     val |-> read_bytes(f, start + 4 + (i - 1) * slot + bpt.keySize,
                                        bpt.valSize)]])
        ELSE IF child_count = 0 THEN Ret(<<>>)
        ELSE Raise("TypeError")

traverse_tree(f, bpt) == rTraverse(f, bpt, bpt.rootOffset)

\* struct.unpack("<LL" | ">LL", val): the two 32-bit halves of an 8-byte value
UnpackLL(val, is_swapped) ==
    IF is_swapped THEN <<LEInt(SubSeq(val, 1, 4)), LEInt(SubSeq(val, 5, 8))>>
    ELSE <<BEInt(SubSeq(val, 1, 4)), BEInt(SubSeq(val, 5, 8))>>

\* the ChromInfo list of the visits t of the traversal
ChromInfos(bpt, t) ==
    IF t.status # "ok" THEN t
    ELSE Ret([i \in 1..Len(t.value) |->
                [name |-> t.value[i].key,
                 id |-> UnpackLL(t.value[i].val, bpt.is_swapped)[1],
                 size |-> UnpackLL(t.value[i].val, bpt.is_swapped)[2]]])

chrom_list(f, bpt) == ChromInfos(bpt, traverse_tree(f, bpt))

(***************************************************************************)
(* CIRTree                                                                 *)
(***************************************************************************)
cmpTwo(aHi, aLo, bHi, bLo) ==
    IF aHi < bHi THEN 1
    ELSE IF aHi > bHi THEN -1
    ELSE IF aLo < bLo THEN 1
    ELSE IF aLo > bLo THEN -1
    ELSE 0

\* cirTreeOverlaps with the end of the interval taken as inside it
cirTreeOverlapsClosed(qChrom, qStart, qEnd, rStartChrom, rStartBase, rEndChrom, rEndBase) ==
    /\ cmpTwo(qChrom, qStart, rEndChrom, rEndBase) >= 0
    /\ cmpTwo(qChrom, qEnd, rStartChrom, rStartBase) < 0

cirTreeOverlaps(qChrom, qStart, qEnd, rStartChrom, rStartBase, rEndChrom, rEndBase) ==
    /\ cmpTwo(qChrom, qStart, rEndChrom, rEndBase) > 0
    /\ cmpTwo(qChrom, qEnd, rStartChrom, rStartBase) < 0

CIRTreeInit(f, off) ==
    LET sig == read_bytes(f, off, 4)
        is_swapped == sig # CIRTREESIG
    IN  IF sig # CIRTREESIG /\ Reverse(sig) # CIRTREESIG THEN Raise("ValueError")
        ELSE Ret([is_swapped |-> is_swapped,
                  blockSize |-> read_long(f, off + 4, is_swapped),
                  itemCount |-> read_longlong(f, off + 8, is_swapped),
                  startChromIx |-> read_long(f, off + 16, is_swapped),
                  startBase |-> read_long(f, off + 20, is_swapped),
                  endChromIx |-> read_long(f, off + 24, is_swapped),
                  endBase |-> read_long(f, off + 28, is_swapped),
                  fileSize |-> read_longlong(f, off + 32, is_swapped),
                  itemsPerSlot |-> read_long(f, off + 40, is_swapped),
                  rootOffset |-> off + 48])

RECURSIVE cir_find(_, _, _, _, _, _)
\* CIRTree._find: the blocks the subtree at offset appends to results
cir_find(f, cir, offset, chrom_id, start, end) ==
    LET sw == cir.is_swapped
        is_leaf == read_bool(f, offset)
        child_count == read_short(f, offset + 2, sw)
        width == IF is_leaf THEN 32 ELSE 24
        child(i) ==
            LET at == offset + 4 + (i - 1) * width
            IN  [startChromIx |-> read_long(f, at, sw),
                 startBase |-> read_long(f, at + 4, sw),
                 endChromIx |-> read_long(f, at + 8, sw),
                 endBase |-> read_long(f, at + 12, sw),
                 offset |-> read_longlong(f, at + 16, sw),
                 size |-> IF is_leaf THEN read_longlong(f, at + 24, sw) ELSE 0]
        hit(c) == cirTreeOverlaps(chrom_id, start, end, c.startChromIx, c.startBase,
                                  c.endChromIx, c.endBase)
    IN  Flatten([i \in 1..child_count |->
            IF ~hit(child(i)) THEN <<>>
            ELSE IF is_leaf
            THEN <<[offset |-> child(i).offset, size |-> child(i).size]>>
            ELSE cir_find(f, cir, child(i).offset, chrom_id, start, end)])

find_blocks(f, cir, chrom_id, start, end) ==
    cir_find(f, cir, cir.rootOffset, chrom_id, start, end)

(***************************************************************************)
(* The block pipeline                                                      *)
(***************************************************************************)
\* strlen: the index of the last byte before the first null byte (so one
\* less than the number of bytes before it), or of the last byte of s when
\* s holds no null byte; 0 for the empty s
strlen(s) ==
    LET nulls == {i \in 1..Len(s) : s[i] = 0}
    IN  IF nulls # {} THEN (CHOOSE i \in nulls : \A j \in nulls : i <= j) - 2
        ELSE IF Len(s) = 0 THEN 0
        ELSE Len(s) - 1

\* (beforeGap, afterGap), 0-based: the first index whose successor is not
\* physically adjacent, and the index after it
fileOffsetSizeFindGap(blocks) ==
    LET stops == {index \in 0..(Len(blocks) - 1) :
                     \/ index + 1 >= Len(blocks)
                     \/ blocks[index + 2].offset
                            # blocks[index + 1].offset + blocks[index + 1].size}
        index == CHOOSE i \in stops : \A j \in stops : i <= j
    IN  <<index, index + 1>>

\* zlib.decompress(data): the payload of the stream data starts with (bytes
\* after the stream are ignored), or zlib.error
zlib_decompress(data) ==
    IF Len(data) < 2 THEN Raise("zlib.error")
    ELSE IF data[1] # 120 THEN Raise("zlib.error")
    ELSE IF Len(data) < data[2] + 3 THEN Raise("zlib.error")
    ELSE LET payload == SubSeq(data, 3, data[2] + 2)
         IN  IF data[data[2] + 3] # SumBytes(payload) % 256 THEN Raise("zlib.error")
             ELSE Ret(payload)

\* struct.unpack(">L", buff[pos:pos+4][::toSwap]): struct.error on a short slice
UnpackL(buff, pos, is_swapped) ==
    LET b == Slice(buff, pos, pos + 4)
    IN  IF Len(b) # 4 THEN Raise("struct.error")
        ELSE Ret(BEInt(IF is_swapped THEN Reverse(b) ELSE b))

\* max_items > 0 and itemCount > max_items
OverCap(q, itemCount) == q.max_items > 0 /\ itemCount > q.max_items

\* the test a decoded record must pass to be returned
InRange(q, chr, s, e) ==
    /\ chr = q.chrom_id
    /\ \/ (s < q.end /\ e > q.start)
       \/ (s = e /\ (s = q.end \/ q.end = q.start))

\* the state of the decoding loops
Loop(status, blockPt, itemCount, intervals) ==
    [status |-> status, blockPt |-> blockPt, itemCount |-> itemCount,
     intervals |-> intervals]

RECURSIVE WhileRecords(_, _, _, _, _, _)

\* One pass of the loop over the record at blockPt: chr, s, e are its decoded
\* fields and restLen is strlen of what follows them.
Record(q, buff, blockPt, blockEnd, itemCount, intervals, chr, s, e, restLen) ==
    IF chr.status # "ok" \/ s.status # "ok" \/ e.status # "ok"
    THEN Loop("struct.error", blockPt, itemCount, intervals)
    ELSE
        LET pt == blockPt + 12
            keep == InRange(q, chr.value, s.value, e.value)
            \* rest is computed and then not used: the BedLine is built with rest = None
            rest == IF restLen > 0 THEN Some(Slice(buff, pt, restLen + 1)) ELSE None
            data == [start |-> s.value, end |-> e.value, rest |-> None,
                     chrom_id |-> chr.value]
        IN  IF keep /\ OverCap(q, itemCount + 1)
            THEN Loop("ok", pt, itemCount + 1, intervals)
            ELSE WhileRecords(q, buff, pt + restLen + 2, blockEnd,
                              IF keep THEN itemCount + 1 ELSE itemCount,
                              IF keep THEN Append(intervals, data) ELSE intervals)

\* while (blockPt < blockEnd): decode one record at blockPt of buff
WhileRecords(q, buff, blockPt, blockEnd, itemCount, intervals) ==
    IF ~(blockPt < blockEnd) THEN Loop("ok", blockPt, itemCount, intervals)
    ELSE Record(q, buff, blockPt, blockEnd, itemCount, intervals,
                UnpackL(buff, blockPt, q.is_swapped),
                UnpackL(buff, blockPt + 4, q.is_swapped),
                UnpackL(buff, blockPt + 8, q.is_swapped),
                strlen(SliceFrom(buff, blockPt + 12)))

RECURSIVE ForIndex(_, _, _, _, _, _, _, _)

\* after the records of block index: leave the loop on the cap, else go on
AfterBlock(q, blocks, mergedBuf, index, afterGap, r) ==
    IF r.status # "ok" \/ OverCap(q, r.itemCount) THEN r
    ELSE ForIndex(q, blocks, mergedBuf, index + 1, afterGap, r.blockPt,
                  r.itemCount, r.intervals)

\* block index, dec its buffer: the decompressed slice or the merged buffer
Block(q, blocks, mergedBuf, index, afterGap, blockPt, itemCount, intervals, dec) ==
    IF dec.status # "ok" THEN Loop(dec.status, blockPt, itemCount, intervals)
    ELSE AfterBlock(q, blocks, mergedBuf, index, afterGap,
                    WhileRecords(q, dec.value, blockPt,
                                 IF q.uncompress THEN blockPt + Len(dec.value)
                                 ELSE blockPt + blocks[index + 1].size,
                                 itemCount, intervals))

\* for index in range(afterGap): decode block index of the merged run
ForIndex(q, blocks, mergedBuf, index, afterGap, blockPt, itemCount, intervals) ==
    IF index >= afterGap THEN Loop("ok", blockPt, itemCount, intervals)
    ELSE Block(q, blocks, mergedBuf, index, afterGap, blockPt, itemCount, intervals,
               IF q.uncompress
               THEN zlib_decompress(Slice(mergedBuf, blockPt, blocks[index + 1].size))
               ELSE Ret(mergedBuf))

RECURSIVE WhileBlocks(_, _, _, _)

\* after the run: return on the cap, else drop the run and go on
AfterRun(q, blocks, afterGap, r) ==
    IF r.status # "ok" THEN Raise(r.status)
    ELSE IF OverCap(q, r.itemCount) THEN Ret(r.intervals)
    ELSE WhileBlocks(q, SubSeq(blocks, afterGap + 1, Len(blocks)),
                     r.itemCount, r.intervals)

\* read the run blocks[0..beforeGap] at once and decode its blocks
Run(q, blocks, itemCount, intervals, beforeGap, afterGap) ==
    LET mergedOffset == blocks[1].offset
        mergedSize == blocks[beforeGap + 1].offset + blocks[beforeGap + 1].size
                          - mergedOffset
    IN  AfterRun(q, blocks, afterGap,
                 ForIndex(q, blocks, read_bytes(q.f, mergedOffset, mergedSize),
                          0, afterGap, 0, itemCount, intervals))

\* while blocks: find the leading run of adjacent blocks and decode it
WhileBlocks(q, blocks, itemCount, intervals) ==
    IF blocks = <<>> THEN Ret(intervals)
    ELSE Run(q, blocks, itemCount, intervals,
             fileOffsetSizeFindGap(blocks)[1], fileOffsetSizeFindGap(blocks)[2])

(***************************************************************************)
(* BigBed                                                                  *)
(***************************************************************************)
BigBedInit(f) ==
    LET sig == read_bytes(f, 0, 4)
        is_swapped == sig # BIGBEDSIG
        chromTreeOffset == read_longlong(f, 8, is_swapped)
        chromBpt == BPlusTreeInit(f, chromTreeOffset)
    IN  IF sig # BIGBEDSIG /\ Reverse(sig) # BIGBEDSIG THEN Raise("ValueError")
        ELSE IF chromBpt.status # "ok" THEN chromBpt
        ELSE Ret([is_swapped |-> is_swapped,
                  version |-> read_short(f, 4, is_swapped),
                  zoomLevels |-> read_short(f, 6, is_swapped),
                  chromTreeOffset |-> chromTreeOffset,
                  unzoomedDataOffset |-> read_longlong(f, 16, is_swapped),
                  unzoomedIndexOffset |-> read_longlong(f, 24, is_swapped),
                  fieldCount |-> read_short(f, 32, is_swapped),
                  definedFieldCount |-> read_short(f, 34, is_swapped),
                  asOffset |-> read_longlong(f, 36, is_swapped),
                  totalSummaryOffset |-> read_longlong(f, 44, is_swapped),
                  uncompressBufSize |-> read_long(f, 52, is_swapped),
                  extensionOffset |-> read_longlong(f, 56, is_swapped),
                  chromBpt |-> chromBpt.value])

\* chrom.startswith("chr"), chrom a str
StartsWithChr(chars) == Len(chars) >= 3 /\ SubSeq(chars, 1, 3) = <<99, 104, 114>>

\* idSize after the retry without the "chr" prefix
Resolve(f, b, chrom, idSize) ==
    IF idSize.status # "ok" \/ idSize.value # None THEN idSize
    \* chrom.startswith("chr"): a bytes object takes no str argument
    ELSE IF chrom.type = "bytes" THEN Raise("TypeError")
    ELSE IF StartsWithChr(chrom.chars)
    THEN find(f, b.chromBpt, Str(SliceFrom(chrom.chars, 3)))
    ELSE Ret(None)

\* the blocks of the chromosome idSize decodes to
Blocks(f, b, ctf, start, end, idSize) ==
    IF idSize.status # "ok" \/ idSize.value = None THEN idSize
    ELSE LET chrom_id == UnpackLL(idSize.value[1], b.chromBpt.is_swapped)[1]
         IN  Ret(Some([blocks |-> find_blocks(f, ctf, chrom_id, start, end),
                       chrom_id |-> chrom_id]))

\* None when the chromosome is not found, else the blocks and the chromosome id
overlapping_blocks(f, b, ctf, chrom, start, end) ==
    Blocks(f, b, ctf, start, end, Resolve(f, b, chrom, find(f, b.chromBpt, chrom)))

\* query from the result of overlapping_blocks on
Pipeline(f, b, start, end, max_items, result) ==
    IF result.status # "ok" THEN result
    ELSE IF result.value = None THEN Raise("SystemExit")
    ELSE WhileBlocks([f |-> f, is_swapped |-> b.is_swapped,
                      uncompress |-> b.uncompressBufSize > 0,
                      chrom_id |-> result.value[1].chrom_id,
                      start |-> start, end |-> end, max_items |-> max_items],
                     result.value[1].blocks, 0, <<>>)

\* query, once the CIR-tree cir is attached
query(f, b, cir, chrom, start, end, max_items) ==
    Pipeline(f, b, start, end, max_items,
             overlapping_blocks(f, b, cir, chrom,
                                IF start > 0 THEN start - 1 ELSE start, end + 1))

\* name.strip(b"\x00")
RECURSIVE LStrip(_)
LStrip(b) == IF b # <<>> /\ Head(b) = 0 THEN LStrip(Tail(b)) ELSE b
Strip(b) == Reverse(LStrip(Reverse(LStrip(b))))

\* the lines to_bed prints for the intervals of one chromosome
Lines(chrom_name, intervals) ==
    [i \in 1..Len(intervals) |->
        [chrom_name |-> chrom_name, start |-> intervals[i].start,
         end |-> intervals[i].end, rest |-> intervals[i].rest]]

\* what to_bed has done: the lines printed and the query calls made, in
\* order, each with the number of lines printed before it
Bed(status, lines, queries) ==
    [status |-> status, lines |-> lines, queries |-> queries]

RECURSIVE ToBedLoop(_, _, _, _, _, _, _, _, _)

\* print the intervals of chromosome i and go on to the next
Emit(f, b, cir, chroms, i, maxItems, itemCount, lines, queries, intervals) ==
    IF intervals.status # "ok" THEN Bed(intervals.status, lines, queries)
    ELSE ToBedLoop(f, b, cir, chroms, i + 1, maxItems, itemCount,
                   lines \o Lines(Strip(chroms[i].name), intervals.value), queries)

\* the loop of to_bed over chroms from index i on
ToBedLoop(f, b, cir, chroms, i, maxItems, itemCount, lines, queries) ==
    IF i > Len(chroms) THEN Bed("ok", lines, queries)
    ELSE
        \* for chrom_name, chrom_start, chrom_size in chroms: a ChromInfo
        \* is (name, id, size), so chrom_start is the id
        LET name == chroms[i].name
            start == chroms[i].id
            end == chroms[i].size
            itemsLeft == IF maxItems # 0 THEN maxItems - itemCount ELSE 0
        IN  IF itemsLeft < 0 THEN Bed("ok", lines, queries)
            \* chrom_name.strip(b"\x00").decode("ascii")
            ELSE IF \E k \in 1..Len(name) : name[k] >= 128
            THEN Bed("UnicodeDecodeError", lines, queries)
            ELSE Emit(f, b, cir, chroms, i, maxItems, itemCount, lines,
                      Append(queries, [chrom |-> Bytes(name), start |-> start,
                                       end |-> end, max_items |-> itemsLeft,
                                       emitted |-> Len(lines)]),
                      query(f, b, cir, Bytes(name), start, end, itemsLeft))

\* to_bed from the chromosome list on
Enumerate(f, b, cir, maxItems, chroms) ==
    IF chroms.status # "ok" THEN Bed(chroms.status, <<>>, <<>>)
    ELSE ToBedLoop(f, b, cir, chroms.value, 1, maxItems, 0, <<>>, <<>>)

to_bed(f, b, cir, maxItems) == Enumerate(f, b, cir, maxItems, chrom_list(f, b.chromBpt))

(***************************************************************************)
(* The files the model opens.  Every file is well formed: blocks hold the  *)
(* records of one chromosome in (chrom, start, end) order, each CIR-tree   *)
(* leaf interval bounds the records of its block, each internal interval   *)
(* contains its subtree, and the B+ tree keys are in byte order.           *)
(***************************************************************************)
chr1 == <<99, 104, 114, 49>>
chr2 == <<99, 104, 114, 50>>
chr3 == <<99, 104, 114, 51>>
chr4 == <<99, 104, 114, 52>>

\* the tail of a record: empty, one byte or two bytes
Tails == << <<>>, <<97>>, <<97, 98>> >>
Rec(c) == [chr |-> c[1], s |-> c[2], e |-> c[3],
           rest |-> Tails[((c[1] + c[2] + c[3]) % 3) + 1]]

\* (chrom, start, end) of the records a file may hold
Coords == {c \in (0..1) \X (0..MaxPos) \X (0..MaxPos) : c[2] <= c[3]}

CoordLess(a, b) ==
    \/ a[1] < b[1]
    \/ a[1] = b[1] /\ a[2] < b[2]
    \/ a[1] = b[1] /\ a[2] = b[2] /\ a[3] < b[3]

RECURSIVE Sorted(_)
\* the records at the coordinates S, in file order
Sorted(S) ==
    IF S = {} THEN <<>>
    ELSE LET m == CHOOSE x \in S : \A y \in S : y = x \/ CoordLess(x, y)
         IN  <<Rec(m)>> \o Sorted(S \ {m})

RECURSIVE Split(_, _, _)
\* recs cut into blocks after the positions in cuts (from counts the records
\* already cut off)
Split(recs, cuts, from) ==
    LET here == {c \in cuts : c > from}
    IN  IF here = {} THEN <<recs>>
        ELSE LET c == CHOOSE x \in here : \A y \in here : x <= y
             IN  <<SubSeq(recs, 1, c - from)>>
                     \o Split(SubSeq(recs, c - from + 1, Len(recs)), cuts, c)

\* every way to lay at most MaxRecs records out in blocks of one chromosome
BlockLists ==
    UNION {LET recs == Sorted(S)
               n == Len(recs)
           IN  {Split(recs, cuts, 0) :
                   cuts \in {C \in SUBSET (1..(n - 1)) :
                                \A i \in 1..(n - 1) :
                                    recs[i].chr # recs[i + 1].chr => i \in C}}
           : S \in {T \in SUBSET Coords : Cardinality(T) \in 1..MaxRecs}}

Chrom(name, id) == [name |-> name, id |-> id, size |-> MaxPos + 1]

\* files over two chromosomes whose B+ tree is one leaf
QueryFixtures ==
    {[swapped |-> sw, compressed |-> z, gap |-> g, bptInternal |-> FALSE,
      cirInternal |-> ci, keySize |-> 4,
      chroms |-> <<Chrom(chr1, 0), Chrom(chr2, 1)>>, blocks |-> bl] :
        sw \in BOOLEAN, z \in BOOLEAN, ci \in BOOLEAN,
        bl \in BlockLists, g \in BOOLEAN} \
    {f \in [swapped : BOOLEAN, compressed : BOOLEAN, gap : {TRUE},
            bptInternal : {FALSE}, cirInternal : BOOLEAN, keySize : {4},
            chroms : {<<Chrom(chr1, 0), Chrom(chr2, 1)>>},
            blocks : {bl \in BlockLists : Len(bl) = 1}] : TRUE}

\* files whose B+ tree has an internal root over two leaves, or stores
\* names without the "chr" prefix; one record spans each chromosome
TreeFixtures ==
    {[swapped |-> sw, compressed |-> FALSE, gap |-> FALSE, bptInternal |-> bi,
      cirInternal |-> FALSE, keySize |-> 4, chroms |-> ch,
      blocks |-> <<Sorted({<<0, 0, MaxPos + 1>>}), Sorted({<<1, 0, MaxPos + 1>>})>>] :
        sw \in BOOLEAN, bi \in BOOLEAN,
        ch \in {<<Chrom(<<49>>, 0), Chrom(<<50>>, 1), Chrom(chr3, 2), Chrom(chr4, 3)>>,
                <<Chrom(<<49>>, 0), Chrom(chr2, 1)>>}}

Fixtures == QueryFixtures \cup TreeFixtures

\* the chromosome names query is called with, and the keys find is called with
QueryChroms ==
    {Bytes(chr1), Bytes(chr2), Bytes(<<49>>),
     Str(chr1), Str(<<49, 97, 98, 99>>), Str(<<99, 104, 114, 49, 97, 98, 99>>)}
\* the chromosome ids find_blocks is called with: those of the files
MaxChromId == 1
FindKeys ==
    {Bytes(chr1), Bytes(chr2), Bytes(chr3), Bytes(chr4), Bytes(<<49>>),
     Bytes(<<49, 0, 0, 0>>), Bytes(<<50>>), Bytes(<<51>>),
     Bytes(<<99, 104, 114, 49, 48>>), Str(chr1)}

(***************************************************************************)
(* The state machine: a container is opened on a file, and the caller      *)
(* makes calls on it.                                                      *)
(***************************************************************************)
\* self.unzoomedCir = None: opening the container attaches no CIR-tree
OpenCir(f) == None

Init ==
    /\ fx \in Fixtures
    /\ file = FileBytes(fx)
    /\ bb = BigBedInit(file).value
    /\ unzoomedCir = OpenCir(file)
    /\ alive = TRUE
    /\ call = [op |-> "open"]
    /\ ret = Ret(None)
    /\ queried = FALSE
    /\ cirReads = 0

\* the CIR-tree a query would construct whatever is attached, reading the
\* header at unzoomedIndexOffset
AttachAgain == [tree |-> CIRTreeInit(file, bb.unzoomedIndexOffset), reads |-> 1]

\* if self.unzoomedCir is None: seek to unzoomedIndexOffset and attach; reads
\* is the number of times this reads the CIR-tree header
Attach == IF unzoomedCir = None
          THEN [tree |-> CIRTreeInit(file, bb.unzoomedIndexOffset), reads |-> 1]
          ELSE [tree |-> Ret(unzoomedCir[1]), reads |-> 0]

\* the call ends with r; exit(-1) ends the process
Returned(r) == ret' = r /\ alive' = (r.status # "SystemExit")

QueryCall(at, chrom, start, end, max_items) ==
    /\ cirReads' = cirReads + at.reads
    /\ IF at.tree.status # "ok"
       THEN ret' = at.tree /\ UNCHANGED <<unzoomedCir, alive>>
       ELSE /\ unzoomedCir' = Some(at.tree.value)
            /\ Returned(query(file, bb, at.tree.value, chrom, start, end, max_items))

Query(chrom, start, end, max_items) ==
    /\ alive
    /\ call' = [op |-> "query", chrom |-> chrom, start |-> start, end |-> end,
                max_items |-> max_items]
    /\ QueryCall(Attach, chrom, start, end, max_items)
    /\ queried' = TRUE
    /\ UNCHANGED <<fx, file, bb>>

\* to_bed: the first query of the loop attaches the tree, the later ones
\* find it attached
ToBedCall(at, maxItems) ==
    IF at.tree.status # "ok"
    THEN ret' = at.tree /\ UNCHANGED <<unzoomedCir, alive, queried, cirReads>>
    ELSE /\ Returned(to_bed(file, bb, at.tree.value, maxItems))
         /\ unzoomedCir' = IF ret'.queries # <<>> THEN Some(at.tree.value)
                           ELSE unzoomedCir
         /\ cirReads' = IF ret'.queries # <<>> THEN cirReads + at.reads ELSE cirReads
         /\ queried' = (queried \/ ret'.queries # <<>>)

ToBed(maxItems) ==
    /\ alive
    /\ call' = [op |-> "to_bed", maxItems |-> maxItems]
    /\ ToBedCall(Attach, maxItems)
    /\ UNCHANGED <<fx, file, bb>>

ChromList ==
    /\ alive
    /\ call' = [op |-> "chrom_list"]
    /\ ret' = chrom_list(file, bb.chromBpt)
    /\ UNCHANGED <<fx, file, bb, unzoomedCir, alive, queried, cirReads>>

Find(key) ==
    /\ alive
    /\ call' = [op |-> "find", key |-> key]
    /\ ret' = find(file, bb.chromBpt, key)
    /\ UNCHANGED <<fx, file, bb, unzoomedCir, alive, queried, cirReads>>

\* self.unzoomedCir.find_blocks(chrom_id, start, end), once the tree is attached
FindBlocks(chrom_id, start, end) ==
    /\ alive
    /\ unzoomedCir # None
    /\ call' = [op |-> "find_blocks", chrom_id |-> chrom_id, start |-> start,
                end |-> end]
    /\ ret' = Ret(find_blocks(file, unzoomedCir[1], chrom_id, start, end))
    /\ UNCHANGED <<fx, file, bb, unzoomedCir, alive, queried, cirReads>>

Next ==
    \/ \E chrom \in QueryChroms, start \in 0..MaxPos, max_items \in 0..MaxCap :
           \E end \in start..MaxPos : Query(chrom, start, end, max_items)
    \/ \E maxItems \in 0..MaxCap : ToBed(maxItems)
    \/ ChromList
    \/ \E key \in FindKeys : Find(key)
    \/ \E chrom_id \in 0..MaxChromId, start \in 0..(MaxPos + 1) :
           \E end \in start..(MaxPos + 1) : FindBlocks(chrom_id, start, end)

Spec == Init /\ [][Next]_vars

(***************************************************************************)
(* What the file of a state holds, as the fixture fx describes it.  The    *)
(* claims below compare the result of the last call with these.            *)
(***************************************************************************)
\* the records of the file, in file order
FileRecords == Flatten(fx.blocks)

\* the chromosomes whose key, padded to keySize, is chars padded to keySize
Holders(chars) ==
    {i \in 1..Len(fx.chroms) :
        /\ Len(chars) <= fx.keySize
        /\ PadKey(fx.chroms[i].name, fx.keySize) = PadKey(chars, fx.keySize)}

IsKey(chars) == Holders(chars) # {}
ChromOf(chars) == fx.chroms[CHOOSE i \in Holders(chars) : TRUE]

\* (chromId, start, end) of the records of a sequence of file records
Triples(recs) == [i \in 1..Len(recs) |-> <<recs[i].chr, recs[i].s, recs[i].e>>]

\* (chromId, start, end) of the BedLines query returned
Returned3(intervals) ==
    [i \in 1..Len(intervals) |->
        <<intervals[i].chrom_id, intervals[i].start, intervals[i].end>>]

\* the filter predicate as the specification words it
Matches(r, id, start, end) ==
    /\ r.chr = id
    /\ \/ (r.s < end /\ r.e > start)
       \/ (r.s = r.e /\ (r.s = end \/ end = start))

\* the last call was query on a chromosome the B+ tree stores
QueryOfStored ==
    /\ call.op = "query"
    /\ call.chrom.type = "bytes"
    /\ IsKey(call.chrom.chars)

\* C1: for a cap N > 0 on a stored chromosome, query returns normally at most
\* N records, and they are the first min(N, M) of the M records that the
\* same query without a cap returns.
C1_CappedQueryIsPrefix ==
    (QueryOfStored /\ call.max_items > 0) =>
        LET u == query(file, bb, unzoomedCir[1], call.chrom, call.start,
                       call.end, 0)
        IN  /\ ret.status = "ok"
            /\ u.status = "ok"
            /\ Len(ret.value) <= call.max_items
            /\ ret.value = SubSeq(u.value, 1, Min(call.max_items, Len(u.value)))

\* C2: on an uncompressed file, an uncapped query on a stored chromosome
\* returns exactly the records of that chromosome that satisfy the filter
\* predicate, each once and in file order.
C2_QueryReturnsEveryMatch ==
    (QueryOfStored /\ call.max_items = 0 /\ ~fx.compressed) =>
        /\ ret.status = "ok"
        /\ Returned3(ret.value) =
               Triples(SelectSeq(FileRecords,
                           LAMBDA r : Matches(r, ChromOf(call.chrom.chars).id,
                                              call.start, call.end)))

\* the name is no key of the B+ tree, and neither is it without its "chr"
NotFoundName(chars) ==
    /\ ~IsKey(chars)
    /\ StartsWithChr(chars) => ~IsKey(SliceFrom(chars, 3))

\* C3: query on a name that is not found, also after the "chr" fallback,
\* returns the empty list and leaves the container usable.
C3_NotFoundIsEmpty ==
    (call.op = "query" /\ NotFoundName(call.chrom.chars)) =>
        ret = Ret(<<>>) /\ alive

\* C4: every zero-length record that query returns lies at a query endpoint.
C4_ZeroLengthAtEndpoint ==
    (call.op = "query" /\ ret.status = "ok") =>
        \A i \in 1..Len(ret.value) :
            ret.value[i].start = ret.value[i].end =>
                \/ ret.value[i].start = call.start
                \/ ret.value[i].start = call.end

\* C5: to_bed with a cap maxItems > 0 prints at most maxItems records in
\* all, and the cap of each query it makes is what is left of maxItems,
\* which is more than zero.
C5_ToBedCapIsTotal ==
    (call.op = "to_bed" /\ call.maxItems > 0) =>
        /\ Len(ret.lines) <= call.maxItems
        /\ \A k \in 1..Len(ret.queries) :
               /\ ret.queries[k].max_items = call.maxItems - ret.queries[k].emitted
               /\ ret.queries[k].max_items > 0

\* C6: find returns the stored value of every stored key, padded or not,
\* and None for every other key of at most keySize bytes.
C6_FindReturnsStoredValue ==
    (call.op = "find" /\ call.key.type = "bytes"
        /\ Len(call.key.chars) <= fx.keySize) =>
        /\ ret.status = "ok"
        /\ IF IsKey(call.key.chars)
           THEN /\ ret.value # None
                /\ UnpackLL(ret.value[1], fx.swapped) =
                       <<ChromOf(call.key.chars).id, ChromOf(call.key.chars).size>>
           ELSE ret.value = None

\* C7: chrom_list visits each of the itemCount leaf items once, from left to
\* right.
C7_TraverseVisitsEveryItem ==
    call.op = "chrom_list" =>
        ret = Ret([i \in 1..Len(fx.chroms) |->
                     [name |-> PadKey(fx.chroms[i].name, fx.keySize),
                      id |-> fx.chroms[i].id, size |-> fx.chroms[i].size]])

RECURSIVE PerBlock(_, _, _, _, _)
\* the decoding of blocks from block i on when each block is read and
\* decoded on its own
PerBlock(q, blocks, i, itemCount, intervals) ==
    IF i > Len(blocks) THEN Ret(intervals)
    ELSE LET r == ForIndex(q, <<blocks[i]>>,
                           read_bytes(q.f, blocks[i].offset, blocks[i].size),
                           0, 1, 0, itemCount, intervals)
         IN  IF r.status # "ok" THEN Raise(r.status)
             ELSE IF OverCap(q, r.itemCount) THEN Ret(r.intervals)
             ELSE PerBlock(q, blocks, i + 1, r.itemCount, r.intervals)

\* query with every block read on its own
QueryPerBlock(chrom, start, end, max_items) ==
    LET result == overlapping_blocks(file, bb, unzoomedCir[1], chrom,
                                     IF start > 0 THEN start - 1 ELSE start,
                                     end + 1)
    IN  IF result.status # "ok" THEN result
        ELSE IF result.value = None THEN Raise("SystemExit")
        ELSE PerBlock([f |-> file, is_swapped |-> bb.is_swapped,
                       uncompress |-> bb.uncompressBufSize > 0,
                       chrom_id |-> result.value[1].chrom_id,
                       start |-> start, end |-> end, max_items |-> max_items],
                      result.value[1].blocks, 1, 0, <<>>)

\* C8: the result of query is the one that reading and decoding each block
\* on its own gives, on uncompressed and on compressed files.
C8_MergedRunEqualsPerBlock ==
    call.op = "query" =>
        ret = QueryPerBlock(call.chrom, call.start, call.end, call.max_items)

\* C9: the rest of a returned record is absent exactly when the tail of the
\* record in the file is empty, and else it is that tail.
C9_RestIsTheTail ==
    (call.op = "query" /\ ret.status = "ok") =>
        \A i \in 1..Len(ret.value) :
            LET tail == Rec(<<ret.value[i].chrom_id, ret.value[i].start,
                              ret.value[i].end>>).rest
            IN  ret.value[i].rest = IF tail = <<>> THEN None ELSE Some(tail)

\* C10: to_bed queries every chromosome of the traversal over [0, chromSize),
\* and without a cap it prints every record of the file.
C10_ToBedCoversEveryChromosome ==
    (call.op = "to_bed" /\ call.maxItems = 0) =>
        /\ ret.status = "ok"
        /\ Len(ret.queries) = Len(fx.chroms)
        /\ \A k \in 1..Len(ret.queries) :
               /\ ret.queries[k].chrom.chars = PadKey(fx.chroms[k].name, fx.keySize)
               /\ ret.queries[k].start = 0
               /\ ret.queries[k].end = fx.chroms[k].size
        /\ Len(ret.lines) = Len(FileRecords)

\* the leaf entries of the CIR-tree of the file, in pre-order: one per block
LeafEntries ==
    [i \in 1..Len(fx.blocks) |->
        [lo |-> BlockStart(fx.blocks[i]), hi |-> BlockEnd(fx.blocks[i]),
         block |-> [offset |-> BlockOffset(fx, bb.unzoomedDataOffset, i),
                    size |-> Len(BlockEnc(fx, i))]]]

\* (chromId, start) < (eChr, eBase) and (chromId, end) > (sChr, sBase)
Overlaps(chrom_id, start, end, entry) ==
    /\ PairLess(<<chrom_id, start>>, entry.hi)
    /\ PairLess(entry.lo, <<chrom_id, end>>)

\* C11: find_blocks returns exactly the leaf entries whose interval overlaps
\* the query under the lexicographic (chrom, base) order, each once and in
\* pre-order of the tree.
C11_FindBlocksReturnsOverlappingLeaves ==
    call.op = "find_blocks" =>
        ret = Ret(Flatten([i \in 1..Len(LeafEntries) |->
                     IF Overlaps(call.chrom_id, call.start, call.end, LeafEntries[i])
                     THEN <<LeafEntries[i].block>> ELSE <<>>]))

\* find_blocks on a tree with an internal root has returned the block of one
\* leaf node and not the block of the other
C11_Witness ==
    /\ call.op = "find_blocks"
    /\ fx.cirInternal
    /\ Len(fx.blocks) > 1
    /\ Len(ret.value) \in 1..(Len(fx.blocks) - 1)

====
